---- MODULE Spec2Model ----
(***************************************************************************)
(* Model of bot.py: the state file, the poll cycle driven by tasks.loop,   *)
(* and the /track, /untrack and /list commands.                            *)
(*                                                                         *)
(* Python strings are tuples of atoms, so that prefix tests and name       *)
(* normalisation are computed.  A Python dict is the sequence of its       *)
(* <<key, value>> items in insertion order.                                *)
(***************************************************************************)
EXTENDS Naturals, Sequences, FiniteSets, Bags, TLC

\* ------------------------------------------------------------------ bounds
MaxCycles      == 2    \* poll cycles started
MaxCommands    == 2    \* slash commands answered or in flight
MaxFaults      == 1    \* failed fetches, sends, saves and lookups
MaxPageChanges == 1    \* times a fetch finds that the site has published
MaxRestarts    == 1    \* process restarts
MaxEvents      == 3    \* commands, faults, publications and restarts together

\* ------------------------------------------------------------- dict helpers
Has(d, k) == \E i \in DOMAIN d : d[i][1] = k

Get(d, k) == d[CHOOSE i \in DOMAIN d : d[i][1] = k][2]

GetOr(d, k, default) == IF Has(d, k) THEN Get(d, k) ELSE default

Put(d, k, v) ==
    IF Has(d, k)
    THEN [i \in DOMAIN d |-> IF d[i][1] = k THEN <<k, v>> ELSE d[i]]
    ELSE Append(d, <<k, v>>)

Pop(d, k) == SelectSeq(d, LAMBDA e : e[1] # k)

EmptyDict == <<>>

\* Python's None, where a tuple and where a string is expected.
None == <<"<None>">>

NoneStr == "<None>"

\* ------------------------------------------------------------------ strings
TrackedKey == <<"tracked">>

LatestKey(name) == <<"latest:">> \o name

VizPrefix == "https://www.viz.com/shonenjump/chapters/"

\* str.strip(): drop leading and trailing spaces.
RECURSIVE LStrip(_)
LStrip(s) == IF s # <<>> /\ Head(s) = " " THEN LStrip(Tail(s)) ELSE s

RECURSIVE RStrip(_)
RStrip(s) ==
    IF s # <<>> /\ s[Len(s)] = " " THEN RStrip(SubSeq(s, 1, Len(s) - 1)) ELSE s

Strip(s) == LStrip(RStrip(s))

LowerChar(c) ==
    CASE c = "A" -> "a"
      [] c = "B" -> "b"
      [] OTHER   -> c

normalize_name(name) ==
    LET s == Strip(name)
    IN  [i \in DOMAIN s |->
            IF LowerChar(s[i]) = " " THEN "_" ELSE LowerChar(s[i])]

\* looks_like_viz_chapters_url with "in" for startswith.
LooksLikeAnywhere(url) == \E i \in DOMAIN url : url[i] = VizPrefix

looks_like_viz_chapters_url(url) == Len(url) >= 1 /\ url[1] = VizPrefix

\* -------------------------------------------------------------- the pages
DateToks == {"January 18, 2026", "January 25, 2026"}
NumToks  == {"1171", "1172"}

OldEntry == <<"January 11, 2026", "Ch.", "1170", "FREE">>

\* A chapters page whose top entry is (date, ch), above an older entry.
PageOf(date, ch) == <<"VIZ">> \o <<date, "Ch.", ch, "FREE">> \o OldEntry

NoMatchPage == <<"VIZ", "Ch.", "1171", "Coming soon">>

IsDate(tok) == tok \in DateToks \cup {"January 11, 2026"}
IsNum(tok)  == tok \in NumToks \cup {"1170"}

MatchAt(text, i) ==
    /\ i + 2 <= Len(text)
    /\ IsDate(text[i])
    /\ text[i + 1] = "Ch."
    /\ IsNum(text[i + 2])

\* TOP_CHAPTER_RE.search: the first match in document order, or None.
parse_latest_chapter(html) ==
    IF \E i \in DOMAIN html : MatchAt(html, i)
    THEN LET i == CHOOSE j \in DOMAIN html :
                    /\ MatchAt(html, j)
                    /\ \A k \in 1..(j - 1) : ~MatchAt(html, k)
         IN  <<html[i], html[i + 2]>>
    ELSE None

ValidURLs == {<<VizPrefix, "one-piece">>, <<VizPrefix, "sakamoto-days">>}
BadURL    == <<"https://example.com/", "one-piece">>
\* Another site, the prefix as a query parameter of another site, nothing.
BadURLs   == {BadURL, <<"https://example.com/?next=", VizPrefix>>, <<>>}
URLs      == ValidURLs \cup BadURLs

Pages == {PageOf(d, c) : d \in DateToks, c \in NumToks} \cup {NoMatchPage}

InitialPage == PageOf("January 18, 2026", "1171")

\* What users type as the series name.
RawNames == {<<" ", "A">>, <<"a">>, <<"A", " ", "b">>}

NameA  == normalize_name(<<" ", "A">>)
NameAB == normalize_name(<<"A", " ", "b">>)
Names  == {normalize_name(r) : r \in RawNames}

UrlOne  == <<VizPrefix, "one-piece">>
UrlSaka == <<VizPrefix, "sakamoto-days">>

\* The value stored under "latest:<name>".
Observed(date, ch, url) == <<<<<<"date">>, date>>, <<<<"ch">>, ch>>, <<<<"url">>, url>>>>

\* ----------------------------------------------------------- the state file
\* json.dump writes the document piece by piece: the opening brace, one piece
\* per top-level item, the closing brace.
OpenBrace  == <<<<"{">>, EmptyDict>>
CloseBrace == <<<<"}">>, EmptyDict>>

Serialize(state) == <<OpenBrace>> \o state \o <<CloseBrace>>

Parseable(data) ==
    /\ Len(data) >= 2
    /\ data[1] = OpenBrace
    /\ data[Len(data)] = CloseBrace
    /\ \A i \in 2..(Len(data) - 1) : data[i] \notin {OpenBrace, CloseBrace}

Deserialize(data) == SubSeq(data, 2, Len(data) - 1)

AbsentFile == [exists |-> FALSE, data |-> <<>>]

FileOf(state) == [exists |-> TRUE, data |-> Serialize(state)]

\* What can go wrong in one handler step.  n is the number of pieces that
\* reached the disk when a write stopped.
NoFault == [kind |-> "none", n |-> 0]

Fault(kind) == [kind |-> kind, n |-> 0]

SaveFaults(state) ==
    {Fault("open")} \cup
    {[kind |-> k, n |-> n] : k \in {"write", "kill"}, n \in 0..(Len(state) + 1)}

\* load_state with the error of json.load swallowed.
LoadNeverRaises(f) == FALSE

\* json.load raises on a document that does not parse.
load_raises(f) == f.exists /\ ~Parseable(f.data)

load_state(f) == IF ~f.exists THEN EmptyDict ELSE Deserialize(f.data)

\* open(STATE_FILE, "w") truncates the file, json.dump then writes the pieces.
save_state(f, state, fault) ==
    CASE fault.kind = "open" -> f
      [] fault.kind \in {"write", "kill"} ->
            [exists |-> TRUE, data |-> SubSeq(Serialize(state), 1, fault.n)]
      [] OTHER -> FileOf(state)

SaveRaises(fault) == fault.kind \in {"open", "write"}

Killed(fault) == fault.kind = "kill"

get_tracked(state) == GetOr(state, TrackedKey, EmptyDict)

set_tracked(state, tracked) == Put(state, TrackedKey, tracked)

\* A state file written by hand before the process starts: two series, the
\* first last seen at the older chapter, the second without a baseline.
HandWritten ==
    <<  <<TrackedKey, <<<<NameA, UrlOne>>, <<NameAB, UrlSaka>>>>>>,
        <<LatestKey(NameA), Observed("January 11, 2026", "1170", UrlOne)>> >>

InitialFiles == {AbsentFile, FileOf(HandWritten)}

\* ------------------------------------------------------------------- state
VARIABLES
    file,     \* state.json: [exists, data]
    page,     \* what each chapters URL served when it was last fetched
    loop,     \* the tasks.loop task: "unstarted", "waiting", "running", "failed"
    cyc,      \* the frame of the running poll_updates call
    tracks,   \* /track calls waiting for their page fetch (a bag)
    sent,     \* messages delivered to the channel, oldest first
    log,      \* lines printed by the current poll cycle, each with the values
              \* the loop body held when it printed
    reply,    \* the answer to the last slash command
    used,     \* how much of each bound the run has used
    lastCmd,  \* history: per name, the last /track or /untrack that took effect
    last      \* history: the bounds' use when the last finished cycle began
              \* (pages, faults, restarts) and ended (commands)

vars == <<file, page, loop, cyc, tracks, sent, log, reply, used, lastCmd, last>>

\* base: the number of messages sent before the cycle; at: used when it began.
IdleCycle ==
    [pc |-> "idle", state |-> EmptyDict, i |-> 0, latest |-> None, base |-> 0,
     at |-> [cycles |-> 0, commands |-> 0, faults |-> 0, pages |-> 0,
             restarts |-> 0]]

NoCycleYet == [done |-> FALSE, pages |-> 0, faults |-> 0, restarts |-> 0,
               commands |-> 0]

NoReply == [kind |-> "none", lines |-> <<>>]

Reply(kind) == [kind |-> kind, lines |-> <<>>]

\* The state when the process first starts, the file being one of files.
InitFrom(files) ==
    /\ file \in files
    /\ page = [u \in ValidURLs |-> InitialPage]
    /\ loop = "unstarted"
    /\ cyc = IdleCycle
    /\ tracks = EmptyBag
    /\ sent = <<>>
    /\ log = <<>>
    /\ reply = NoReply
    /\ used = [cycles |-> 0, commands |-> 0, faults |-> 0, pages |-> 0,
               restarts |-> 0]
    /\ lastCmd = [n \in Names |-> "none"]
    /\ last = NoCycleYet

Init == InitFrom(InitialFiles)

\* What the environment has done to the program so far.
Events == used.commands + BagCardinality(tracks) + used.faults + used.pages
            + used.restarts

Within == Events <= MaxEvents

\* The faults one step may draw: none, or one of kinds while the bounds allow.
MayFail(kinds) ==
    {f \in kinds \cup {NoFault} :
        \/ f = NoFault
        \/ Killed(f) /\ used.restarts < MaxRestarts
        \/ ~Killed(f) /\ used.faults < MaxFaults}

Spend(fault) ==
    IF fault = NoFault THEN used
    ELSE IF Killed(fault) THEN [used EXCEPT !.restarts = @ + 1]
    ELSE [used EXCEPT !.faults = @ + 1]

\* fetch_html(url) returns html: what the site serves at that moment, which is
\* what it served last time unless the site has published since.
Serves(url, html, fault) ==
    /\ html \in Pages
    /\ html # page[url] => fault.kind # "fetch" /\ used.pages < MaxPageChanges

Fetched(u, url, html) ==
    IF html # page[url] THEN [u EXCEPT !.pages = @ + 1] ELSE u

\* The process dies: everything in memory is gone, the file and the channel stay.
Died ==
    /\ loop' = "unstarted"
    /\ cyc' = IdleCycle
    /\ tracks' = EmptyBag
    /\ log' = <<>>
    /\ reply' = NoReply

\* A printed line; err names the call that raised.
Line(tag, name, latest, err) ==
    [tag |-> tag, name |-> name, latest |-> latest, err |-> err]

\* The cycle that ran in frame has finished.
Finished(frame, usedAtEnd) ==
    [done |-> TRUE, pages |-> frame.at.pages, faults |-> frame.at.faults,
     restarts |-> frame.at.restarts, commands |-> usedAtEnd.commands]

\* ---------------------------------------------------------------- on_ready
\* start() without the test for a live task: a new task is created each time.
StartUnguarded(task) == "waiting"

\* poll_updates.start(): creates the task, whose first cycle is due after
\* before_poll; raises RuntimeError and changes nothing while a task is alive.
Start(task) == IF task \in {"unstarted", "failed"} THEN "waiting" ELSE task

\* Lines 74-90; the RuntimeError of a second start() ends the handler.
OnReady ==
    /\ loop' = Start(loop)
    /\ UNCHANGED <<file, page, cyc, tracks, sent, log, reply, used, lastCmd, last>>

\* ------------------------------------------------------------ poll_updates
Items(state) == get_tracked(state)

\* The loop body is left for the next item, or the cycle ends.
Advance(frame) ==
    IF frame.i < Len(Items(frame.state))
    THEN [frame EXCEPT !.pc = "fetch", !.i = @ + 1, !.latest = None]
    ELSE IdleCycle

LoopAfter(frame) == IF Advance(frame).pc = "idle" THEN "waiting" ELSE "running"

LastAfter(frame, usedAtEnd) ==
    IF Advance(frame).pc = "idle" THEN Finished(frame, usedAtEnd) ELSE last

\* StartOutcome without lines 102-104: the sweep starts with channel = None.
StartOutcomeNoLookup(state, fault) ==
    IF Items(state) = EmptyDict THEN "empty" ELSE "sweep"

\* Lines 97-104: the two early returns of poll_updates.
StartOutcome(state, fault) ==
    IF Items(state) = EmptyDict THEN "empty"
    ELSE IF fault.kind = "channel" THEN "no channel"
    ELSE "sweep"

\* Lines 93-106: up to the first fetch.
PollStart(fault) ==
    /\ loop = "waiting"
    /\ used.cycles < MaxCycles
    /\ fault \in MayFail({Fault("channel")})
    /\ used' = [Spend(fault) EXCEPT !.cycles = @ + 1]
    /\ LET frame == [IdleCycle EXCEPT !.base = Len(sent), !.at = used]
       IN  IF load_raises(file)
           THEN \* json.JSONDecodeError is not an error the loop retries: the task ends
                /\ fault = NoFault
                /\ loop' = "failed"
                /\ cyc' = IdleCycle
                /\ log' = <<>>
                /\ last' = last
           ELSE LET state == load_state(file)
                IN  IF StartOutcome(state, fault) = "empty"
                    THEN /\ fault = NoFault
                         /\ loop' = "waiting"
                         /\ cyc' = IdleCycle
                         /\ log' = <<Line("OK no tracked series", <<>>, None, "")>>
                         /\ last' = Finished(frame, used')
                    ELSE IF StartOutcome(state, fault) = "no channel"
                    THEN /\ loop' = "waiting"
                         /\ cyc' = IdleCycle
                         /\ log' = <<Line("ERROR no channel", <<>>, None, "")>>
                         /\ last' = Finished(frame, used')
                    ELSE /\ loop' = "running"
                         /\ cyc' = [frame EXCEPT !.pc = "fetch", !.state = state,
                                                 !.i = 1]
                         /\ log' = <<>>
                         /\ last' = last
    /\ UNCHANGED <<file, page, tracks, sent, reply, lastCmd>>
    /\ Within'

\* Outcome with "and" for "or": only a change of both fields counts.
OutcomeBothDiffer(state, name, latest) ==
    IF ~Has(state, LatestKey(name)) THEN "init"
    ELSE LET prev == Get(state, LatestKey(name))
         IN  IF /\ GetOr(prev, <<"ch">>, NoneStr) # latest[2]
                /\ GetOr(prev, <<"date">>, NoneStr) # latest[1]
             THEN "changed"
             ELSE "unchanged"

\* Outcome without the test of line 118: prev = state.get(state_key, {}).
OutcomeNoBaseline(state, name, latest) ==
    LET prev == GetOr(state, LatestKey(name), EmptyDict)
    IN  IF \/ GetOr(prev, <<"ch">>, NoneStr) # latest[2]
           \/ GetOr(prev, <<"date">>, NoneStr) # latest[1]
        THEN "changed"
        ELSE "unchanged"

\* Outcome reading a key the stored value does not have.
OutcomeWrongKey(state, name, latest) ==
    IF ~Has(state, LatestKey(name)) THEN "init"
    ELSE LET prev == Get(state, LatestKey(name))
         IN  IF \/ GetOr(prev, <<"chapter">>, NoneStr) # latest[2]
                \/ GetOr(prev, <<"date">>, NoneStr) # latest[1]
             THEN "changed"
             ELSE "unchanged"

\* Lines 118-125: what the loop body does with a parsed (date, ch).
Outcome(state, name, latest) ==
    IF ~Has(state, LatestKey(name)) THEN "init"
    ELSE LET prev == Get(state, LatestKey(name))
         IN  IF \/ GetOr(prev, <<"ch">>, NoneStr) # latest[2]
                \/ GetOr(prev, <<"date">>, NoneStr) # latest[1]
             THEN "changed"
             ELSE "unchanged"

\* Record with the date and the chapter stored under each other's key.
RecordSwapped(state, name, latest, url) ==
    Put(state, LatestKey(name), Observed(latest[2], latest[1], url))

\* Lines 119 and 132.
Record(state, name, latest, url) ==
    Put(state, LatestKey(name), Observed(latest[1], latest[2], url))

\* The message of lines 126-131.  seen is history: how many publications the
\* fetches had met when it was sent.
Message(name, latest, url) ==
    [name |-> name, ch |-> latest[2], date |-> latest[1], url |-> url,
     seen |-> used.pages]

CurName == Items(cyc.state)[cyc.i][1]
CurUrl  == Items(cyc.state)[cyc.i][2]

\* ItemDone with the try around the whole loop: an error ends the sweep.
ItemDoneAbort(frame, line) ==
    /\ log' = Append(log, line)
    /\ IF line.tag = "ERROR"
       THEN /\ cyc' = IdleCycle
            /\ loop' = "waiting"
            /\ last' = Finished(frame, used')
       ELSE /\ cyc' = Advance(frame)
            /\ loop' = LoopAfter(frame)
            /\ last' = LastAfter(frame, used')
    /\ UNCHANGED <<tracks, reply>>

\* Lines 107, 113, 122 and 138-139: the loop body is done with the current
\* item, whether it printed its line normally or in the except clause, and the
\* sweep goes on with frame.
ItemDone(frame, line) ==
    /\ log' = Append(log, line)
    /\ cyc' = Advance(frame)
    /\ loop' = LoopAfter(frame)
    /\ last' = LastAfter(frame, used')
    /\ UNCHANGED <<tracks, reply>>

\* Lines 109-125 and 135-139: the fetch of the current item returns or raises.
PollFetchDone(html, fault) ==
    /\ loop = "running"
    /\ cyc.pc = "fetch"
    /\ Serves(CurUrl, html, fault)
    /\ page' = [page EXCEPT ![CurUrl] = html]
    /\ LET name   == CurName
           url    == CurUrl
           latest == parse_latest_chapter(html)
           state2 == Record(cyc.state, name, latest, url)
       IN  /\ used' = Fetched(Spend(fault), url, html)
           /\ IF fault.kind = "fetch"
              THEN /\ fault \in MayFail({Fault("fetch")})
                   /\ ItemDone(cyc, Line("ERROR", name, None, "fetch"))
                   /\ file' = file
              ELSE IF latest = None
              THEN /\ fault = NoFault
                   /\ ItemDone(cyc, Line("WARN", name, None, ""))
                   /\ file' = file
              ELSE IF Outcome(cyc.state, name, latest) = "init"
              THEN /\ fault \in MayFail(SaveFaults(state2))
                   /\ file' = save_state(file, state2, fault)
                   /\ IF Killed(fault) THEN Died /\ last' = last
                      ELSE ItemDone([cyc EXCEPT !.state = state2],
                                IF SaveRaises(fault)
                                THEN Line("ERROR", name, latest, "save")
                                ELSE Line("INIT", name, latest, ""))
              ELSE IF Outcome(cyc.state, name, latest) = "changed"
              THEN /\ fault = NoFault
                   /\ cyc' = [cyc EXCEPT !.pc = "send", !.latest = latest]
                   /\ UNCHANGED <<file, loop, log, tracks, reply, last>>
              ELSE /\ fault = NoFault
                   /\ ItemDone(cyc, Line("OK", name, latest, ""))
                   /\ file' = file
    /\ UNCHANGED <<sent, lastCmd>>
    /\ Within'

\* Lines 126-134 and 138-139: channel.send returns or raises.
PollSendDone(fault) ==
    /\ loop = "running"
    /\ cyc.pc = "send"
    /\ LET name   == CurName
           url    == CurUrl
           state2 == Record(cyc.state, name, cyc.latest, url)
       IN  /\ used' = Spend(fault)
           /\ IF fault.kind = "send"
              THEN /\ fault \in MayFail({Fault("send")})
                   /\ ItemDone(cyc, Line("ERROR", name, cyc.latest, "send"))
                   /\ UNCHANGED <<file, sent>>
              ELSE /\ fault \in MayFail(SaveFaults(state2))
                   /\ sent' = Append(sent, Message(name, cyc.latest, url))
                   /\ file' = save_state(file, state2, fault)
                   /\ IF Killed(fault) THEN Died /\ last' = last
                      ELSE ItemDone([cyc EXCEPT !.state = state2],
                                IF SaveRaises(fault)
                                THEN Line("ERROR", name, cyc.latest, "save")
                                ELSE Line("NOTIFIED", name, cyc.latest, ""))
    /\ UNCHANGED <<page, lastCmd>>
    /\ Within'

\* ------------------------------------------------------------------ /track
\* A command has been answered.
Answered(u) == [u EXCEPT !.commands = @ + 1]

\* Lines 151-161: validation, then the fetch is started.
TrackStart(raw, url) ==
    /\ used.commands + BagCardinality(tracks) < MaxCommands
    /\ IF ~looks_like_viz_chapters_url(url)
       THEN /\ reply' = Reply("invalid url")
            /\ used' = Answered(used)
            /\ UNCHANGED tracks
       ELSE /\ tracks' = tracks (+) SetToBag({[name |-> normalize_name(raw),
                                              url |-> url]})
            /\ reply' = NoReply
            /\ UNCHANGED used
    /\ UNCHANGED <<file, page, loop, cyc, sent, log, lastCmd, last>>
    /\ Within'

\* TrackUpdate without line 183: the name is tracked but gets no baseline.
TrackUpdateNoBaseline(state, name, url, latest) ==
    set_tracked(state, Put(get_tracked(state), name, url))

\* TrackUpdate with tracked = {name_norm: url} for lines 178-179: the other
\* tracked names are dropped.
TrackUpdateOverwrites(state, name, url, latest) ==
    Put(set_tracked(state, <<<<name, url>>>>),
        LatestKey(name), Observed(latest[1], latest[2], url))

\* Lines 178-183.
TrackUpdate(state, name, url, latest) ==
    Put(set_tracked(state, Put(get_tracked(state), name, url)),
        LatestKey(name), Observed(latest[1], latest[2], url))

\* Lines 164-191: the fetch returns or raises, then load, update, save.
TrackFetchDone(t, html, fault) ==
    /\ BagIn(t, tracks)
    /\ Serves(t.url, html, fault)
    /\ page' = [page EXCEPT ![t.url] = html]
    /\ LET latest == parse_latest_chapter(html)
           state2 == TrackUpdate(load_state(file), t.name, t.url, latest)
           gone   == tracks (-) SetToBag({t})
       IN  /\ used' = Fetched(Answered(Spend(fault)), t.url, html)
           /\ IF fault.kind = "fetch"
              THEN /\ fault \in MayFail({Fault("fetch")})
                   /\ reply' = Reply("fetch failed")
                   /\ tracks' = gone
                   /\ UNCHANGED <<file, loop, cyc, log, lastCmd>>
              ELSE IF latest = None
              THEN /\ fault = NoFault
                   /\ reply' = Reply("no chapter found")
                   /\ tracks' = gone
                   /\ UNCHANGED <<file, loop, cyc, log, lastCmd>>
              ELSE IF load_raises(file)
              THEN /\ fault = NoFault
                   /\ reply' = Reply("error")
                   /\ tracks' = gone
                   /\ UNCHANGED <<file, loop, cyc, log, lastCmd>>
              ELSE /\ fault \in MayFail(SaveFaults(state2))
                   /\ file' = save_state(file, state2, fault)
                   /\ IF Killed(fault) THEN Died /\ lastCmd' = lastCmd
                      ELSE /\ reply' = IF SaveRaises(fault) THEN Reply("error")
                                       ELSE Reply("tracking")
                           /\ lastCmd' = IF SaveRaises(fault) THEN lastCmd
                                         ELSE [lastCmd EXCEPT ![t.name] = "track"]
                           /\ tracks' = gone
                           /\ UNCHANGED <<loop, cyc, log>>
    /\ UNCHANGED <<sent, last>>
    /\ Within'

\* ---------------------------------------------------------------- /untrack
\* UntrackUpdate without line 208: the observed value stays behind.
UntrackUpdateKeepsObserved(state, name) ==
    set_tracked(state, Pop(get_tracked(state), name))

\* UntrackUpdate without lines 206-207: the name stays tracked, without its
\* observed value.
UntrackUpdateKeepsTracked(state, name) == Pop(state, LatestKey(name))

\* Lines 206-208.
UntrackUpdate(state, name) ==
    Pop(set_tracked(state, Pop(get_tracked(state), name)), LatestKey(name))

\* Lines 195-211.
Untrack(raw, fault) ==
    /\ used.commands + BagCardinality(tracks) < MaxCommands
    /\ LET name   == normalize_name(raw)
           state  == load_state(file)
           state2 == UntrackUpdate(state, name)
       IN  /\ used' = Answered(Spend(fault))
           /\ IF load_raises(file)
              THEN /\ fault = NoFault
                   /\ reply' = Reply("error")
                   /\ UNCHANGED <<file, loop, cyc, tracks, log, lastCmd>>
              ELSE IF ~Has(get_tracked(state), name)
              THEN /\ fault = NoFault
                   /\ reply' = Reply("not tracking")
                   /\ UNCHANGED <<file, loop, cyc, tracks, log, lastCmd>>
              ELSE /\ fault \in MayFail(SaveFaults(state2))
                   /\ file' = save_state(file, state2, fault)
                   /\ IF Killed(fault) THEN Died /\ lastCmd' = lastCmd
                      ELSE /\ reply' = IF SaveRaises(fault) THEN Reply("error")
                                       ELSE Reply("untracked")
                           /\ lastCmd' = IF SaveRaises(fault) THEN lastCmd
                                         ELSE [lastCmd EXCEPT ![name] = "untrack"]
                           /\ UNCHANGED <<loop, cyc, tracks, log>>
    /\ UNCHANGED <<page, sent, last>>
    /\ Within'

\* ------------------------------------------------------------------- /list
\* Lines 222-227: one line per tracked series.
ListLines(state) ==
    LET tracked == get_tracked(state)
    IN  [i \in DOMAIN tracked |->
            LET latest == GetOr(state, LatestKey(tracked[i][1]), EmptyDict)
            IN  [name |-> tracked[i][1],
                 ch   |-> GetOr(latest, <<"ch">>, NoneStr),
                 date |-> GetOr(latest, <<"date">>, NoneStr),
                 url  |-> tracked[i][2]]]

\* Lines 214-229.
ListTracked ==
    /\ used.commands + BagCardinality(tracks) < MaxCommands
    /\ used' = Answered(used)
    /\ reply' = IF load_raises(file) THEN Reply("error")
                ELSE IF get_tracked(load_state(file)) = EmptyDict
                THEN Reply("no tracked series")
                ELSE [kind |-> "list", lines |-> ListLines(load_state(file))]
    /\ UNCHANGED <<file, page, loop, cyc, tracks, sent, log, lastCmd, last>>
    /\ Within'

\* ------------------------------------------------------------ environment
\* The process is stopped and started again between two steps.
Restart ==
    /\ used.restarts < MaxRestarts
    /\ used' = [used EXCEPT !.restarts = @ + 1]
    /\ Died
    /\ UNCHANGED <<file, page, sent, lastCmd, last>>
    /\ Within'

\* The longest State has the tracked map and one observed value per name.
MaxPieces == Cardinality(Names) + 2

FaultSpace ==
    {Fault(k) : k \in {"none", "channel", "fetch", "send", "open"}} \cup
    {[kind |-> k, n |-> n] : k \in {"write", "kill"}, n \in 0..MaxPieces}

Next ==
    \/ OnReady
    \/ \E fault \in FaultSpace : PollStart(fault)
    \/ \E html \in Pages, fault \in FaultSpace : PollFetchDone(html, fault)
    \/ \E fault \in FaultSpace : PollSendDone(fault)
    \/ \E raw \in RawNames, url \in URLs : TrackStart(raw, url)
    \/ \E t \in BagToSet(tracks), html \in Pages, fault \in FaultSpace :
            TrackFetchDone(t, html, fault)
    \/ \E raw \in RawNames, fault \in FaultSpace : Untrack(raw, fault)
    \/ ListTracked
    \/ Restart

Spec == Init /\ [][Next]_vars

\* The program on a file that starts absent or empty and with saves that
\* either write the whole document or raise at the open: no write stops
\* half way and the process is killed only between steps.
AtomicFaults == {f \in FaultSpace : f.kind \notin {"write", "kill"}}

InitAtomic == InitFrom({AbsentFile, FileOf(EmptyDict)})

NextAtomic ==
    \/ OnReady
    \/ \E fault \in AtomicFaults : PollStart(fault)
    \/ \E html \in Pages, fault \in AtomicFaults : PollFetchDone(html, fault)
    \/ \E fault \in AtomicFaults : PollSendDone(fault)
    \/ \E raw \in RawNames, url \in URLs : TrackStart(raw, url)
    \/ \E t \in BagToSet(tracks), html \in Pages, fault \in AtomicFaults :
            TrackFetchDone(t, html, fault)
    \/ \E raw \in RawNames, fault \in AtomicFaults : Untrack(raw, fault)
    \/ ListTracked
    \/ Restart

SpecAtomic == InitAtomic /\ [][NextAtomic]_vars

\* ------------------------------------------------------------- vocabulary
\* What load_state would return for the file, when it parses.
Readable(f) == ~load_raises(f)

TrackedIn(f, name) == Readable(f) /\ Has(get_tracked(load_state(f)), name)

ObservedIn(f, name) == Readable(f) /\ Has(load_state(f), LatestKey(name))

ObservedOf(f, name) == Get(load_state(f), LatestKey(name))

\* A step of the running cycle's loop body, or the death of the process in
\* the middle of the cycle: no command is answered in it.
LoopStep ==
    /\ cyc.pc \in {"fetch", "send"}
    /\ cyc' # cyc
    /\ used'.commands = used.commands

\* A step of the loop body that the process survives.
FetchStep == LoopStep /\ cyc.pc = "fetch" /\ loop' # "unstarted"
SendStep  == LoopStep /\ cyc.pc = "send" /\ loop' # "unstarted"

\* The step that completes a sweep over the tracked items.
CycleEnds == loop = "running" /\ loop' = "waiting"

\* The cycle saved the State in this step.
CycleSaved ==
    /\ LoopStep
    /\ file' # file
    /\ Readable(file')

LastLine == log'[Len(log')]

Printed(tag, err) ==
    /\ log' # log
    /\ LastLine.tag = tag
    /\ LastLine.err = err
    /\ LastLine.name = CurName

LastSent == sent'[Len(sent')]

\* ---------------------------------------------------------------- claims

\* C1: once a Track or Untrack has taken effect, every later save of a poll
\* cycle leaves that effect in the persisted State: a tracked name stays in
\* the tracked map with an observed value, an untracked name stays out of
\* both maps.
C1_NoLostUpdate ==
    [][CycleSaved =>
        \A n \in Names :
            /\ lastCmd[n] = "track" =>
                    TrackedIn(file', n) /\ ObservedIn(file', n)
            /\ lastCmd[n] = "untrack" =>
                    ~TrackedIn(file', n) /\ ~ObservedIn(file', n)]_vars

\* C2: an item is notified of a (date, label) at most once while the fetches
\* meet no publication: no two messages have the same name, date and label
\* without a publication seen between them.
C2_AtMostOnce ==
    \A i, j \in DOMAIN sent :
        (/\ i < j
         /\ sent[i].name = sent[j].name
         /\ sent[i].date = sent[j].date
         /\ sent[i].ch = sent[j].ch) => sent[i].seen # sent[j].seen

\* C3: when the notification of a value is emitted, that value is already
\* the persisted ObservedValue of the item.
C3_PersistedBeforeNotified ==
    [][sent' # sent =>
        /\ ObservedIn(file, LastSent.name)
        /\ Get(ObservedOf(file, LastSent.name), <<"date">>) = LastSent.date
        /\ Get(ObservedOf(file, LastSent.name), <<"ch">>) = LastSent.ch]_vars

\* C4: when the send for a changed item raised, at the end of the cycle the
\* persisted ObservedValue of the item is the freshly fetched value, and the
\* cycle printed one line for the item (no second attempt).
C4_NotifyFailureKeepsUpdate ==
    [][CycleEnds =>
        \A i \in DOMAIN log' :
            log'[i].err = "send" =>
                /\ ObservedIn(file', log'[i].name)
                /\ Get(ObservedOf(file', log'[i].name), <<"date">>)
                        = log'[i].latest[1]
                /\ Get(ObservedOf(file', log'[i].name), <<"ch">>)
                        = log'[i].latest[2]
                /\ \A j \in DOMAIN log' :
                        log'[j].name = log'[i].name => j = i]_vars

\* C5: a process killed during save_state leaves a file that load_state reads.
C5_SaveAllOrNothing ==
    [][(Readable(file) /\ used'.restarts > used.restarts) => Readable(file')]_vars

\* C6: a cycle ends only after its loop body has run for every item of the
\* tracked map, in order, whatever happened to the items before: the lines
\* the cycle printed are one per item.
C6_FailureIsolation ==
    [][CycleEnds =>
        /\ Len(log') = Len(Items(cyc.state))
        /\ \A i \in DOMAIN log' : log'[i].name = Items(cyc.state)[i][1]]_vars

\* The first of two items failed or had no match and the second was reconciled.
C6_Witness ==
    /\ loop = "waiting"
    /\ Len(log) = 2
    /\ log[1].tag \in {"ERROR", "WARN"}
    /\ log[2].tag \in {"INIT", "OK", "NOTIFIED"}

\* What the step at hand fetched (a fetch step) or holds (a send step).
Fresh == IF cyc.pc = "send" THEN cyc.latest
         ELSE parse_latest_chapter(page'[CurUrl])

Stored == Get(cyc.state, LatestKey(CurName))

HasStored == Has(cyc.state, LatestKey(CurName))

SameAsStored ==
    /\ Fresh # None
    /\ HasStored
    /\ Has(Stored, <<"date">>) /\ Get(Stored, <<"date">>) = Fresh[1]
    /\ Has(Stored, <<"ch">>) /\ Get(Stored, <<"ch">>) = Fresh[2]

FetchRaised == Printed("ERROR", "fetch")

\* The file holds exactly the fresh date and label and the item's URL.
PersistedFresh ==
    /\ ObservedIn(file', CurName)
    /\ ObservedOf(file', CurName) = Observed(Fresh[1], Fresh[2], CurUrl)

\* C7 as claimed: a stored value and a fresh one that differ in date or in
\* label lead to the send, and the step after the send has emitted exactly
\* one notification and persisted the fresh date, label and URL.
C7_ChangedAsClaimed ==
    [][/\ (FetchStep /\ ~FetchRaised /\ Fresh # None /\ HasStored
                /\ ~SameAsStored)
            => cyc'.pc = "send" /\ cyc'.latest = Fresh
       /\ SendStep
            => /\ sent' = Append(sent, Message(CurName, Fresh, CurUrl))
               /\ PersistedFresh]_vars

\* C7 amended: a stored value and a fresh one that differ in date or in
\* label lead to exactly one call of channel.send; when the send returns,
\* exactly one notification is emitted and the State with the fresh date,
\* label and URL is saved (persisted unless the save raises); when the send
\* raises, nothing is emitted and nothing is saved for the item.
C7_Changed ==
    [][/\ (FetchStep /\ ~FetchRaised /\ Fresh # None /\ HasStored
                /\ ~SameAsStored)
            => /\ cyc'.pc = "send" /\ cyc'.latest = Fresh
               /\ sent' = sent /\ file' = file
       /\ SendStep
            => \/ /\ Printed("ERROR", "send")
                  /\ sent' = sent /\ file' = file
               \/ /\ sent' = Append(sent, Message(CurName, Fresh, CurUrl))
                  /\ \/ Printed("NOTIFIED", "") /\ PersistedFresh
                     \/ Printed("ERROR", "save")
       /\ SendStep => cyc'.pc # "send" \/ cyc'.i # cyc.i]_vars

\* A change of the date alone was notified and persisted.
C7_Witness ==
    /\ Len(sent) = 2
    /\ sent[1].name = sent[2].name
    /\ sent[1].ch = sent[2].ch
    /\ sent[1].date # sent[2].date
    /\ ObservedIn(file, sent[2].name)
    /\ Get(ObservedOf(file, sent[2].name), <<"date">>) = sent[2].date

\* C8 as claimed: an item without a stored value whose page was fetched and
\* parsed gets the fresh value persisted, and nothing is sent.
C8_InitializeAsClaimed ==
    [][(FetchStep /\ ~FetchRaised /\ Fresh # None /\ ~HasStored)
            => PersistedFresh /\ sent' = sent /\ cyc'.pc # "send"]_vars

\* C8 amended: an item without a stored value whose page was fetched and
\* parsed gets the State with the fresh value saved (persisted unless the
\* save raises), and nothing is sent.
C8_Initialize ==
    [][(FetchStep /\ ~FetchRaised /\ Fresh # None /\ ~HasStored)
            => /\ sent' = sent
               /\ cyc'.pc # "send"
               /\ \/ Printed("INIT", "") /\ PersistedFresh
                  \/ Printed("ERROR", "save")]_vars

\* An item got its baseline from a cycle that sent nothing.
C8_Witness ==
    /\ \E i \in DOMAIN log : log[i].tag = "INIT" /\ ObservedIn(file, log[i].name)
    /\ sent = <<>>

\* C9: a step of the loop body on an item whose fresh (date, label) equals the
\* stored one saves nothing, sends nothing and does not start a send.
C9_Unchanged ==
    [][(LoopStep /\ SameAsStored)
            => file' = file /\ sent' = sent /\ cyc'.pc # "send"]_vars

\* An item was found unchanged.
C9_Witness == \E i \in DOMAIN log : log[i].tag = "OK"

\* Nothing came between the last finished cycle and this step: no publication
\* since it began, no command answered since it ended.
Undisturbed ==
    /\ last.done
    /\ last.pages = used'.pages
    /\ last.commands = used'.commands

TrackDone(t) ==
    /\ BagIn(t, tracks)
    /\ tracks' = tracks (-) SetToBag({t})
    /\ used'.commands = used.commands + 1
    /\ used'.restarts = used.restarts

\* The fetch raised or the page had no chapter entry.
TrackFetchFailed == reply'.kind \in {"fetch failed", "no chapter found"}

\* The State the call saves: the State on file with the name tracked at the
\* url and the page's first entry as its baseline.
TrackSaved(t) ==
    FileOf(Put(set_tracked(load_state(file),
                           Put(get_tracked(load_state(file)), t.name, t.url)),
               LatestKey(t.name),
               Observed(parse_latest_chapter(page'[t.url])[1],
                        parse_latest_chapter(page'[t.url])[2], t.url)))

\* C11 as claimed: a /track call sends nothing to the channel and either its
\* fetch or extraction failed and the file is what it was, or the file holds
\* the tracked entry and the baseline, written by one save.
C11_TrackAsClaimed ==
    [][\A t \in BagToSet(tracks) :
        TrackDone(t) =>
            /\ sent' = sent
            /\ IF TrackFetchFailed THEN file' = file
               ELSE file' = TrackSaved(t)]_vars

\* C11 amended: a /track call sends nothing to the channel, and either it
\* answers that it is tracking and the file holds the tracked entry and the
\* baseline, written by one save; or the fetch or the extraction failed, or
\* load_state or the open of the file raised, and the file is what it was; or
\* the write raised and the file is left unreadable.
C11_TrackAllOrNothing ==
    [][\A t \in BagToSet(tracks) :
        TrackDone(t) =>
            /\ sent' = sent
            /\ \/ /\ reply'.kind = "tracking"
                  /\ file' = TrackSaved(t)
                  /\ TrackedIn(file', t.name) /\ ObservedIn(file', t.name)
               \/ /\ TrackFetchFailed
                  /\ file' = file
               \/ /\ reply'.kind = "error"
                  /\ file' = file \/ ~Readable(file')]_vars

\* A /track on an absent file was answered and the file holds exactly the
\* tracked entry and its baseline.
C11_Witness ==
    /\ reply.kind = "tracking"
    /\ sent = <<>>
    /\ \E n \in Names :
            /\ TrackedIn(file, n) /\ ObservedIn(file, n)
            /\ Len(load_state(file)) = 2

\* C12: a /track with a url that does not start with the chapters prefix is
\* answered at once: no fetch is started, and the file, which is neither
\* loaded nor saved, and the pages are what they were.
C12_InvalidUrlRejected ==
    [][\A raw \in RawNames, url \in BadURLs :
        TrackStart(raw, url) =>
            /\ reply'.kind = "invalid url"
            /\ tracks' = tracks
            /\ file' = file
            /\ page' = page
            /\ used'.commands = used.commands + 1]_vars

\* A /track was rejected for its url and no fetch is in flight.
C12_Witness ==
    /\ reply.kind = "invalid url"
    /\ tracks = EmptyBag
    /\ used.commands = 1

\* The url the file tracks name at.
TrackedUrl(f, name) == Get(get_tracked(load_state(f)), name)

\* The file has the same entries for name before and after the step.
SameEntries(name) ==
    /\ TrackedIn(file', name) <=> TrackedIn(file, name)
    /\ TrackedIn(file, name) => TrackedUrl(file', name) = TrackedUrl(file, name)
    /\ ObservedIn(file', name) <=> ObservedIn(file, name)
    /\ ObservedIn(file, name) => ObservedOf(file', name) = ObservedOf(file, name)

\* The name is in neither map and every other name's entries are untouched.
Removed(name) ==
    /\ Readable(file')
    /\ ~TrackedIn(file', name)
    /\ ~ObservedIn(file', name)
    /\ \A m \in Names \ {name} : SameEntries(m)

\* An /untrack call that returns.
UntrackReturns(raw, fault) == Untrack(raw, fault) /\ ~Killed(fault)

\* C13 as claimed: /untrack of a tracked name removes its tracked entry and
\* its observed value in one save and leaves the other names' entries as
\* they were; /untrack of a name that is not tracked answers so and does not
\* save.
C13_UntrackAsClaimed ==
    [][\A raw \in RawNames, fault \in FaultSpace :
        (UntrackReturns(raw, fault) /\ Readable(file)) =>
            IF TrackedIn(file, normalize_name(raw))
            THEN Removed(normalize_name(raw))
            ELSE reply'.kind = "not tracking" /\ file' = file]_vars

\* C13 amended: /untrack of a tracked name either answers that it untracked,
\* having removed the tracked entry and the observed value in one save and
\* left the other names' entries as they were, or answers with an error
\* because save_state raised, and the file is what it was (the open failed)
\* or is left unreadable (the write failed); /untrack of a name that is not
\* tracked answers so and does not save.
C13_Untrack ==
    [][\A raw \in RawNames, fault \in FaultSpace :
        (UntrackReturns(raw, fault) /\ Readable(file)) =>
            IF TrackedIn(file, normalize_name(raw))
            THEN \/ /\ reply'.kind = "untracked"
                    /\ Removed(normalize_name(raw))
                 \/ /\ reply'.kind = "error"
                    /\ file' = file \/ ~Readable(file')
            ELSE reply'.kind = "not tracking" /\ file' = file]_vars

\* The first of two series was untracked: its entries are gone and the
\* second is still tracked.
C13_Witness ==
    /\ reply.kind = "untracked"
    /\ ~TrackedIn(file, NameA) /\ ~ObservedIn(file, NameA)
    /\ TrackedIn(file, NameAB)

\* C14: an execution of poll_updates begins only when the task is waiting
\* and no execution is in progress, and whenever the task is not running a
\* cycle (unstarted, waiting or failed, also after on_ready has fired again)
\* no execution is in progress.
C14_SingleInFlight ==
    [][/\ used'.cycles > used.cycles => loop = "waiting" /\ cyc.pc = "idle"
       /\ loop' # "running" => cyc'.pc = "idle"
       /\ loop' = "running" => cyc'.pc \in {"fetch", "send"}]_vars

\* The second cycle of a process is in progress, after the first has ended.
C14_Witness ==
    /\ loop = "running"
    /\ used.cycles = 2
    /\ used.restarts = 0
    /\ last.done

\* C15: a cycle whose channel lookup returns None starts no fetch, saves
\* nothing and sends nothing, prints the error and returns, and the task
\* waits for its next cycle.
C15_NoChannel ==
    [][PollStart(Fault("channel")) =>
            /\ cyc'.pc = "idle"
            /\ page' = page
            /\ file' = file
            /\ sent' = sent
            /\ log' = <<Line("ERROR no channel", <<>>, None, "")>>
            /\ loop' = "waiting"]_vars

\* A cycle has returned for want of the channel, with series tracked, and
\* the task waits for a cycle it may still run.
C15_Witness ==
    /\ log = <<Line("ERROR no channel", <<>>, None, "")>>
    /\ loop = "waiting"
    /\ Readable(file) /\ Items(load_state(file)) # EmptyDict
    /\ used.cycles < MaxCycles

\* C16: a cycle in which load_state raises is lost alone: the task stays
\* alive and waits for its next cycle.
C16_SchedulerSurvives ==
    [][(loop = "waiting" /\ used'.cycles > used.cycles /\ load_raises(file))
            => loop' = "waiting"]_vars

\* A step of an operation that begins by loading the State, or ends a
\* command: the start of a cycle, or a command answered.
OperationLoads ==
    \/ used'.cycles > used.cycles
    \/ used'.commands > used.commands

\* The file exists and holds no complete document.
Corrupt(f) == f.exists /\ ~Parseable(f.data)

\* C17: when the file exists and does not parse, the start of a cycle and
\* every command leave the file as it is and no command answers with a
\* success; load_state gives the empty State for an absent file, and for a
\* file that exists only when the file holds the empty State.
C17_CorruptNotEmpty ==
    [][/\ (Corrupt(file) /\ OperationLoads) =>
            /\ file' = file
            /\ used'.commands > used.commands =>
                    reply'.kind \in {"error", "invalid url", "fetch failed",
                                     "no chapter found"}
            /\ used'.cycles > used.cycles => cyc'.pc = "idle"
       /\ ~file.exists => load_state(file) = EmptyDict
       /\ (file.exists /\ ~load_raises(file) /\ load_state(file) = EmptyDict)
            => file = FileOf(EmptyDict)
       /\ Corrupt(file) => load_raises(file)]_vars

\* A cycle started on a file that does not parse, and the file is still
\* there as it was.
C17_Witness ==
    /\ loop = "failed"
    /\ Corrupt(file)

\* The file shows the effect of command c on name.
Reflects(f, name, c) ==
    /\ c = "track" => TrackedIn(f, name) /\ ObservedIn(f, name)
    /\ c = "untrack" => ~TrackedIn(f, name) /\ ~ObservedIn(f, name)

\* C18: the save of a /track or /untrack that takes effect holds that effect
\* and, for every other name, exactly the entries the file held when the
\* command loaded it, so the effect of no other command is lost, whether or
\* not its execution overlapped; and as long as only commands have written
\* the file, the file shows the last effect on every name.
C18_CommandsKeepEachOther ==
    [][/\ (/\ used'.commands > used.commands
           /\ reply'.kind \in {"tracking", "untracked"}) =>
            \E n \in Names :
                /\ Reflects(file', n, lastCmd'[n])
                /\ lastCmd'[n] = IF reply'.kind = "tracking" THEN "track"
                                 ELSE "untrack"
                /\ \A m \in Names \ {n} :
                        lastCmd'[m] = lastCmd[m] /\ SameEntries(m)
       /\ (used'.cycles = 0 /\ used'.faults = 0 /\ used'.restarts = 0) =>
            \A n \in Names : Reflects(file', n, lastCmd'[n])]_vars

\* A command took effect while the fetch of a /track of another name was in
\* flight, and the effect is in the file.
C18_Witness ==
    /\ reply.kind \in {"tracking", "untracked"}
    /\ used.cycles = 0
    /\ \E n \in Names, t \in BagToSet(tracks) :
            /\ t.name # n
            /\ lastCmd[n] # "none"
            /\ Reflects(file, n, lastCmd[n])

\* C19: on a file that started absent or empty and is saved atomically,
\* the file always parses and has an observed value for exactly the names of
\* its tracked map, the State a running cycle holds has one for every name it
\* sweeps, and no cycle takes the branch of lines 118-122.
C19_ObservedIffTracked ==
    /\ Readable(file)
    /\ \A n \in Names : TrackedIn(file, n) <=> ObservedIn(file, n)
    /\ \A i \in DOMAIN Items(cyc.state) :
            Has(cyc.state, LatestKey(Items(cyc.state)[i][1]))
    /\ \A i \in DOMAIN log : log[i].tag # "INIT"

\* A cycle has notified a change of a series that /track added.
C19_Witness ==
    /\ \E i \in DOMAIN log : log[i].tag = "NOTIFIED"
    /\ \E n \in Names : lastCmd[n] = "track" /\ TrackedIn(file, n)

\* C20: once /untrack of a name has taken effect and no /track of it has
\* followed, no cycle starts a send for the name and no notification of it is
\* emitted.
C20_NoNotificationAfterUntrack ==
    [][/\ (LoopStep /\ cyc'.pc = "send" /\ cyc.pc = "fetch")
            => lastCmd[CurName] # "untrack"
       /\ sent' # sent => lastCmd[LastSent.name] # "untrack"]_vars

====
